---- MODULE Spec2Model ----
(***************************************************************************)
(* A model of src/lidar_server.py: the per-packet decoders, the format     *)
(* auto-detector, the UDP ingestor / frame aggregator (UdpPointSource) and  *)
(* the per-consumer publish loops (lidar_stream).                           *)
(*                                                                          *)
(* A payload is a sequence of bytes (0..255).  A decoded array is a         *)
(* sequence of rows, a row a sequence of column values.  A float32 is       *)
(* carried as the signed integer  sign * (its 31 magnitude bits): on the    *)
(* finite floats this is order preserving, so every comparison the code     *)
(* makes (isfinite, == 0.0, > 500.0, > 1e7) is a comparison of bits.        *)
(* A scale is carried in thousandths: 1 is 0.001, 1000 is 1.0.              *)
(***************************************************************************)
EXTENDS Integers, Sequences, FiniteSets, TLC

\* ------------------------------------------------------------------------
\* Program constants
\* ------------------------------------------------------------------------

\* scale 0.001 (millimetres) and 1.0 (metres), in thousandths
ScaleMM == 1
ScaleM == 1000

\* bit patterns of the float32 thresholds: +inf (0x7F800000), 500.0
\* (0x43FA0000) and 1e7 (0x4B189680)
F32InfBits == 2139095040
F32Bits500 == 1140457472
F32Bits1e7 == 1259902592

\* try_i16's sanity bound, the detector's penalty, score per point (x10)
I16SanityMax == 40000
ScorePenalty == 1000000
ScorePerPoint == 10
MaxHeaderScan == 64
HeaderStep == 4

\* vendor protocol
VendorPointType == 102
VendorMaxPoints == 300
VendorHeaderLen == 12
StatPeriodMs == 2000

Magic == <<85, 170, 5, 10>>

\* ------------------------------------------------------------------------
\* Bytes
\* ------------------------------------------------------------------------

\* payload[off:] (off is a 0-based byte offset)
Slice(p, off) == SubSeq(p, off + 1, Len(p))

\* little-endian uint16 at 0-based offset off
U16At(p, off) == p[off + 1] + 256 * p[off + 2]

\* little-endian int16
I16At(p, off) == IF U16At(p, off) >= 32768 THEN U16At(p, off) - 65536 ELSE U16At(p, off)

\* A float32 from its four bytes, least significant first: sign * magnitude
\* bits.
F32OfBytes(b0, b1, b2, b3) ==
    LET mag == b0 + 256 * b1 + 65536 * b2 + 16777216 * (b3 % 128)
    IN  IF b3 >= 128 THEN 0 - mag ELSE mag

F32LEAt(p, off) == F32OfBytes(p[off + 1], p[off + 2], p[off + 3], p[off + 4])
F32BEAt(p, off) == F32OfBytes(p[off + 4], p[off + 3], p[off + 2], p[off + 1])

\* struct's "<I": an unsigned 32-bit integer.  The code only compares these
\* fields with numbers below 2^31, so a value of 2^31 or more is carried as
\* 2^31 - 1.
U32At(p, off) ==
    IF p[off + 4] >= 128 THEN 2147483647
    ELSE p[off + 1] + 256 * p[off + 2] + 65536 * p[off + 3] + 16777216 * p[off + 4]

Abs(x) == IF x < 0 THEN 0 - x ELSE x

F32IsFinite(v) == Abs(v) < F32InfBits

\* ------------------------------------------------------------------------
\* Arrays
\* ------------------------------------------------------------------------

\* np.frombuffer(body, dtype).reshape(-1, cols) (then astype(float32) for
\* the integer dtypes); width is the element width in bytes
ElemAt(body, dtype, off) ==
    CASE dtype = "<f4" -> F32LEAt(body, off)
      [] dtype = ">f4" -> F32BEAt(body, off)
      [] dtype = "<i2" -> I16At(body, off)
      [] dtype = "<u2" -> U16At(body, off)

FromBuffer(body, dtype, width, cols) ==
    [r \in 1..(Len(body) \div (width * cols)) |->
        [c \in 1..cols |-> ElemAt(body, dtype, ((r - 1) * cols + (c - 1)) * width)]]

Max2(a, b) == IF a >= b THEN a ELSE b

\* np.max(np.abs(arr[:, :3])) of a non-empty array: the maximum over rows
\* lo .. hi, by halves
RECURSIVE MaxAbsRows(_, _, _)
MaxAbsRows(arr, lo, hi) ==
    IF lo = hi THEN Max2(Abs(arr[lo][1]), Max2(Abs(arr[lo][2]), Abs(arr[lo][3])))
    ELSE Max2(MaxAbsRows(arr, lo, (lo + hi) \div 2),
              MaxAbsRows(arr, ((lo + hi) \div 2) + 1, hi))

MaxAbsXYZ(arr) == MaxAbsRows(arr, 1, Len(arr))

\* np.isfinite(arr).all() over all columns, and over the xyz columns
AllFinite(arr) == \A r \in 1..Len(arr) : \A c \in 1..Len(arr[r]) : F32IsFinite(arr[r][c])
XYZFinite(arr) == \A r \in 1..Len(arr) : \A c \in 1..3 : F32IsFinite(arr[r][c])

\* Decode results: None, a raised exception, or (array, scale).
NoneRes == [kind |-> "none", arr |-> <<>>, scale |-> 0, err |-> ""]
RaiseRes(e) == [kind |-> "raise", arr |-> <<>>, scale |-> 0, err |-> e]
OkRes(arr, scale) == [kind |-> "ok", arr |-> arr, scale |-> scale, err |-> ""]

\* ------------------------------------------------------------------------
\* Float arithmetic of the vendor decoder.  A number is finite with an
\* integer value, +inf, -inf or NaN.  F32Num is exact on the floats of
\* integral value below 2^24 and on the non-finite ones, which are the
\* floats the packets of this model carry.
\* ------------------------------------------------------------------------
Fin(n) == [c |-> "fin", v |-> n]
NaN == [c |-> "nan", v |-> 0]
Inf(sgn) == [c |-> "inf", v |-> sgn]

Pow2(n) == IF n = 0 THEN 1 ELSE 2 ^ n

Sgn(n) == IF n < 0 THEN 0 - 1 ELSE IF n > 0 THEN 1 ELSE 0

F32Num(bits) ==
    LET m == Abs(bits)
        e == m \div 8388608
        sig == 8388608 + (m % 8388608)
    IN  IF m > F32InfBits THEN NaN
        ELSE IF m = F32InfBits THEN Inf(Sgn(bits))
        ELSE IF e < 127 THEN Fin(0)
        ELSE IF e <= 150 THEN Fin(Sgn(bits) * (sig \div Pow2(150 - e)))
        ELSE Fin(Sgn(bits) * 16777216)

FIsFinite(a) == a.c = "fin"

FAdd(a, b) ==
    IF a.c = "nan" \/ b.c = "nan" THEN NaN
    ELSE IF a.c = "inf" /\ b.c = "inf" THEN (IF a.v = b.v THEN a ELSE NaN)
    ELSE IF a.c = "inf" THEN a
    ELSE IF b.c = "inf" THEN b
    ELSE Fin(a.v + b.v)

FMul(a, b) ==
    IF a.c = "nan" \/ b.c = "nan" THEN NaN
    ELSE IF a.c = "inf" \/ b.c = "inf"
         THEN (IF Sgn(a.v) * Sgn(b.v) = 0 THEN NaN ELSE Inf(Sgn(a.v) * Sgn(b.v)))
    ELSE Fin(a.v * b.v)

\* a <= b on floats: false when either is NaN
FLe(a, b) ==
    /\ a.c # "nan"
    /\ b.c # "nan"
    /\ \/ a.c = "inf" /\ a.v < 0
       \/ b.c = "inf" /\ b.v > 0
       \/ a.c = "fin" /\ b.c = "fin" /\ a.v <= b.v

\* ------------------------------------------------------------------------
\* _decode_unitree_l2_point_packet
\* ------------------------------------------------------------------------

\* struct.unpack_from(fmt, payload, off) raises struct.error unless the
\* buffer holds size bytes from off
UnpackFits(payload, off, size) == Len(payload) >= off + size

\* Sample j (0-based) of a vendor packet: its raw range, its range in
\* metres r = range_scale * (r_raw + range_bias), its angles, and whether
\* the reconstructed x, y, z are finite.  x, y and z are sums of products of
\* r, the axis distances and sines and cosines of the angles: they are
\* finite exactly when every one of those inputs is (a cosine is never 0.0).
VendorRaw(payload, j) == U16At(payload, 132 + 2 * j)
VendorIntensity(payload, j) == payload[732 + j + 1]
VendorRange(payload, j) ==
    FMul(F32Num(F32LEAt(payload, 92)),
         FAdd(Fin(VendorRaw(payload, j)), F32Num(F32LEAt(payload, 88))))
VendorAlpha(payload, j) ==
    FAdd(FAdd(F32Num(F32LEAt(payload, 116)), F32Num(F32LEAt(payload, 76))),
         FMul(Fin(j), F32Num(F32LEAt(payload, 120))))
VendorTheta(payload, j) ==
    FAdd(FAdd(F32Num(F32LEAt(payload, 96)), F32Num(F32LEAt(payload, 72))),
         FMul(Fin(j), F32Num(F32LEAt(payload, 100))))

\* a faulty variant: no sample is masked out
VendorMaskAll(payload, j) == TRUE

\* mask = (r_raw >= 1.0) & (r >= range_min_m) & (r <= range_max_m)
VendorMask(payload, j) ==
    /\ VendorRaw(payload, j) >= 1
    /\ FLe(F32Num(F32LEAt(payload, 108)), VendorRange(payload, j))
    /\ FLe(VendorRange(payload, j), F32Num(F32LEAt(payload, 112)))

VendorXYZFinite(payload, j) ==
    /\ FIsFinite(VendorRange(payload, j))
    /\ FIsFinite(VendorAlpha(payload, j))
    /\ FIsFinite(VendorTheta(payload, j))
    /\ FIsFinite(F32Num(F32LEAt(payload, 64)))
    /\ FIsFinite(F32Num(F32LEAt(payload, 68)))
    /\ FIsFinite(F32Num(F32LEAt(payload, 80)))
    /\ FIsFinite(F32Num(F32LEAt(payload, 84)))

\* One output row (x, y, z, intensity).  The Cartesian coordinates are a
\* function of the sample index, its range and the packet's calibration;
\* the row carries the range and the sample index in their place.
VendorRow(payload, j) ==
    <<VendorRange(payload, j).v, j, 0, VendorIntensity(payload, j)>>

\* pts[finite] over the masked samples j = 0 .. point_num - 1, in order
VendorKept(payload, point_num) ==
    LET Keep(j) == VendorMask(payload, j) /\ VendorXYZFinite(payload, j)
    IN  SelectSeq([i \in 1..point_num |-> i - 1], Keep)

RowsOfKept(payload, kept) == [k \in 1..Len(kept) |-> VendorRow(payload, kept[k])]

VendorRows(payload, point_num) == RowsOfKept(payload, VendorKept(payload, point_num))

Min2(a, b) == IF a <= b THEN a ELSE b

_decode_unitree_l2_point_packet(payload) ==
    IF Len(payload) < VendorHeaderLen THEN NoneRes
    ELSE IF SubSeq(payload, 1, 4) # Magic THEN NoneRes
    ELSE IF U32At(payload, 4) # VendorPointType THEN NoneRes
    ELSE IF U32At(payload, 8) > Len(payload) THEN NoneRes
    ELSE IF ~UnpackFits(payload, 12, 16) THEN NoneRes
    ELSE IF ~UnpackFits(payload, 28, 36) THEN NoneRes
    ELSE IF ~UnpackFits(payload, 64, 32) THEN NoneRes
    ELSE IF ~UnpackFits(payload, 96, 32) THEN NoneRes
    ELSE IF ~UnpackFits(payload, 128, 4) THEN NoneRes
    ELSE IF U32At(payload, 128) = 0 THEN OkRes(<<>>, ScaleM)
    ELSE IF ~UnpackFits(payload, 132, 2 * VendorMaxPoints) THEN NoneRes
    ELSE IF ~UnpackFits(payload, 132 + 2 * VendorMaxPoints, VendorMaxPoints) THEN NoneRes
    ELSE OkRes(VendorRows(payload, Min2(U32At(payload, 128), VendorMaxPoints)), ScaleM)

\* ------------------------------------------------------------------------
\* _decode_points
\* ------------------------------------------------------------------------

\* the unit heuristic: millimetres when the largest |x|, |y|, |z| is over 500
F32Scale(max_abs) == IF max_abs > F32Bits500 THEN ScaleMM ELSE ScaleM

\* try_f32 from the finite check on
F32Checked(arr) ==
    IF ~AllFinite(arr) THEN NoneRes
    ELSE IF arr = <<>> THEN OkRes(arr, F32Scale(0))
    ELSE OkRes(arr, F32Scale(MaxAbsXYZ(arr)))

try_f32(payload, cols) ==
    IF Len(payload) % (4 * cols) # 0 THEN NoneRes
    ELSE F32Checked(FromBuffer(payload, "<f4", 4, cols))

\* try_i16 from the sanity check on: np.max of an empty array raises
\* ValueError
I16Checked(arr) ==
    IF arr = <<>> THEN RaiseRes("ValueError: zero-size array")
    ELSE IF MaxAbsXYZ(arr) > I16SanityMax THEN NoneRes
    ELSE OkRes(arr, ScaleMM)

try_i16(payload, cols) ==
    IF Len(payload) % (2 * cols) # 0 THEN NoneRes
    ELSE I16Checked(FromBuffer(payload, "<i2", 2, cols))

\* a faulty variant: a vendor packet that yields no point is a failure
DecodeBodyEmptyFails(payload, fmt) ==
    IF fmt = "unitree_l2_packet"
    THEN IF _decode_unitree_l2_point_packet(payload).arr = <<>>
         THEN NoneRes
         ELSE _decode_unitree_l2_point_packet(payload)
    ELSE IF fmt = "f32xyz" THEN try_f32(payload, 3)
    ELSE IF fmt = "f32xyzi" THEN try_f32(payload, 4)
    ELSE IF fmt = "i16xyz_mm" THEN try_i16(payload, 3)
    ELSE IF fmt = "i16xyzi_mm" THEN try_i16(payload, 4)
    ELSE IF fmt # "auto" THEN RaiseRes("ValueError: Unknown format")
    ELSE NoneRes

DecodeBody(payload, fmt) ==
    IF fmt = "unitree_l2_packet" THEN _decode_unitree_l2_point_packet(payload)
    ELSE IF fmt = "f32xyz" THEN try_f32(payload, 3)
    ELSE IF fmt = "f32xyzi" THEN try_f32(payload, 4)
    ELSE IF fmt = "i16xyz_mm" THEN try_i16(payload, 3)
    ELSE IF fmt = "i16xyzi_mm" THEN try_i16(payload, 4)
    ELSE IF fmt # "auto" THEN RaiseRes("ValueError: Unknown format")
    ELSE NoneRes

\* "if header_bytes: ... payload = payload[header_bytes:]"
_decode_points(payload, fmt, header_bytes) ==
    IF header_bytes # 0 /\ Len(payload) <= header_bytes THEN NoneRes
    ELSE DecodeBody(IF header_bytes # 0 THEN Slice(payload, header_bytes) ELSE payload, fmt)

\* ------------------------------------------------------------------------
\* _decode_points_auto
\* ------------------------------------------------------------------------

\* Detection results: None, or (points, scale, header_bytes, fmt_name)
AutoNone == [kind |-> "none", arr |-> <<>>, scale |-> 0, hb |-> 0, name |-> ""]
AutoOk(arr, scale, hb, name) ==
    [kind |-> "ok", arr |-> arr, scale |-> scale, hb |-> hb, name |-> name]

\* score(arr) of a non-empty array with finite xyz whose largest magnitude
\* is max_abs
ScoreOf(n, max_abs) ==
    IF max_abs = 0 THEN 0 - 1
    ELSE n * ScorePerPoint - (IF max_abs > F32Bits1e7 THEN ScorePenalty ELSE 0)

\* score(arr): -1 rejects; otherwise 10 per point, less the penalty.  (An
\* array of the int16 / uint16 candidates is finite after astype(float32).)
score(arr) ==
    IF arr = <<>> THEN 0 - 1
    ELSE IF ~XYZFinite(arr) THEN 0 - 1
    ELSE ScoreOf(Len(arr), MaxAbsXYZ(arr))

candidates ==
    << [dtype |-> "<f4", width |-> 4, name |-> "f32xyz", cols |-> 3],
       [dtype |-> "<f4", width |-> 4, name |-> "f32xyzi", cols |-> 4],
       [dtype |-> ">f4", width |-> 4, name |-> "f32xyz_be", cols |-> 3],
       [dtype |-> ">f4", width |-> 4, name |-> "f32xyzi_be", cols |-> 4],
       [dtype |-> "<i2", width |-> 2, name |-> "i16xyz_mm", cols |-> 3],
       [dtype |-> "<i2", width |-> 2, name |-> "i16xyzi_mm", cols |-> 4],
       [dtype |-> "<u2", width |-> 2, name |-> "u16xyz_mm", cols |-> 3],
       [dtype |-> "<u2", width |-> 2, name |-> "u16xyzi_mm", cols |-> 4] >>

IsF32Name(name) == name \in {"f32xyz", "f32xyzi", "f32xyz_be", "f32xyzi_be"}

\* the scale heuristic by type and magnitude
CandScale(name, max_abs) == IF IsF32Name(name) THEN F32Scale(max_abs) ELSE ScaleMM

\* Whether a candidate's score replaces the best so far
Improves(s, best_score) == s > best_score

\* the loop body from score(arr) on: st is [best, best_score]
Consider(arr, s, hb, name, st) ==
    IF Improves(s, st.best_score)
    THEN [best |-> AutoOk(arr, CandScale(name, MaxAbsXYZ(arr)), hb, name), best_score |-> s]
    ELSE st

ConsiderArr(arr, hb, name, st) == Consider(arr, score(arr), hb, name, st)

\* one pass of the inner loop: candidate cand on payload[hb:]
ScanStep(payload, hb, cand, st) ==
    IF Len(payload) <= hb THEN st
    ELSE IF (Len(payload) - hb) % (cand.width * cand.cols) # 0 THEN st
    ELSE ConsiderArr(FromBuffer(Slice(payload, hb), cand.dtype, cand.width, cand.cols),
                     hb, cand.name, st)

\* The two nested loops: combination i = 0, 1, ... is header offset
\* 4 * (i div 8) and candidate (i mod 8) + 1, in the order the code visits
\* them.
NumCombos == ((MaxHeaderScan \div HeaderStep) + 1) * Len(candidates)

\* The combinations lo .. hi in order, by halves: the state after them.
\* (The state after the first half is evaluated once, as a bound value.)
RECURSIVE Scan(_, _, _, _)
Scan(payload, lo, hi, st) ==
    IF lo = hi
    THEN ScanStep(payload, HeaderStep * (lo \div Len(candidates)),
                  candidates[(lo % Len(candidates)) + 1], st)
    ELSE CHOOSE r \in {Scan(payload, ((lo + hi) \div 2) + 1, hi, left) :
                          left \in {Scan(payload, lo, (lo + hi) \div 2, st)}} : TRUE

GenericDetect(payload) ==
    Scan(payload, 0, NumCombos - 1, [best |-> AutoNone, best_score |-> 0 - 1]).best

HasMagic(payload) == Len(payload) >= VendorHeaderLen /\ SubSeq(payload, 1, 4) = Magic

\* "if len(payload) >= 12 and payload[:4] == magic: pts = ..."
VendorFirst(payload) ==
    IF HasMagic(payload) THEN _decode_unitree_l2_point_packet(payload) ELSE NoneRes

\* a faulty variant: the generic heuristics first, the vendor result only
\* when they find nothing
AutoFromGenericFirst(payload, pts) ==
    IF GenericDetect(payload).kind = "ok"
    THEN GenericDetect(payload)
    ELSE IF pts.kind = "ok" /\ pts.arr # <<>>
    THEN AutoOk(pts.arr, ScaleM, 0, "unitree_l2_packet")
    ELSE AutoNone

\* the vendor result is accepted only with at least one point (its points
\* are finite by construction); otherwise the generic heuristics run
AutoFrom(payload, pts) ==
    IF pts.kind = "ok" /\ pts.arr # <<>>
    THEN AutoOk(pts.arr, ScaleM, 0, "unitree_l2_packet")
    ELSE GenericDetect(payload)

_decode_points_auto(payload) == AutoFrom(payload, VendorFirst(payload))

\* ------------------------------------------------------------------------
\* Packets: the byte strings a sender puts on the wire, written the way the
\* decoders above read them.
\* ------------------------------------------------------------------------

Zeros(n) == [i \in 1..n |-> 0]
Fill(n, b) == [i \in 1..n |-> b]

RECURSIVE Log2(_)
Log2(n) == IF n <= 1 THEN 0 ELSE 1 + Log2(n \div 2)

\* The float32 of an integer |n| < 2^24, as sign * magnitude bits
F32BitsOfInt(n) ==
    IF n = 0 THEN 0
    ELSE LET a == Abs(n)
             e == Log2(a)
         IN  Sgn(n) * ((127 + e) * 8388608 + (a - Pow2(e)) * Pow2(23 - e))

\* the four bytes of a float32, least significant first
F32Bytes(bits) ==
    LET m == Abs(bits)
    IN  << m % 256, (m \div 256) % 256, (m \div 65536) % 256,
           (m \div 16777216) + (IF bits < 0 THEN 128 ELSE 0) >>

Reverse(q) == [i \in 1..Len(q) |-> q[Len(q) + 1 - i]]

U16Bytes(v) == << v % 256, v \div 256 >>
I16Bytes(v) == U16Bytes(IF v < 0 THEN v + 65536 ELSE v)
U32Bytes(v) == << v % 256, (v \div 256) % 256, (v \div 65536) % 256, v \div 16777216 >>

\* one element of a generic layout
ElemBytes(dtype, v) ==
    CASE dtype = "<f4" -> F32Bytes(v)
      [] dtype = ">f4" -> Reverse(F32Bytes(v))
      [] dtype = "<i2" -> I16Bytes(v)
      [] dtype = "<u2" -> U16Bytes(v)

\* the concatenation of the sequences qs[lo], ..., qs[hi], by halves
RECURSIVE FlattenRange(_, _, _)
FlattenRange(qs, lo, hi) ==
    IF lo > hi THEN <<>>
    ELSE IF lo = hi THEN qs[lo]
    ELSE FlattenRange(qs, lo, (lo + hi) \div 2)
         \o FlattenRange(qs, ((lo + hi) \div 2) + 1, hi)

Flatten(qs) == FlattenRange(qs, 1, Len(qs))

\* a packet of the generic layout cand: hb header bytes, then the rows
SynthPacket(cand, hb, header_byte, rows) ==
    Fill(hb, header_byte)
    \o Flatten([r \in 1..Len(rows) |->
                  Flatten([c \in 1..cand.cols |-> ElemBytes(cand.dtype, rows[r][c])])])

\* A vendor packet.  cal is the 8 calibration floats and geo the 8
\* scan-geometry floats (sign * magnitude bits), ranges and intens the
\* leading samples; the rest of the 300-sample arrays is zero.  The packet is
\* cut to len bytes.
VendorPacket(ptype, psize, cal, geo, point_num, ranges, intens, len) ==
    SubSeq(
      Magic \o U32Bytes(ptype) \o U32Bytes(psize)
      \o Zeros(16) \o Zeros(36)
      \o Flatten([i \in 1..8 |-> F32Bytes(cal[i])])
      \o Flatten([i \in 1..8 |-> F32Bytes(geo[i])])
      \o U32Bytes(point_num)
      \o Flatten([i \in 1..VendorMaxPoints |->
                    U16Bytes(IF i <= Len(ranges) THEN ranges[i] ELSE 0)])
      \o [i \in 1..VendorMaxPoints |-> IF i <= Len(intens) THEN intens[i] ELSE 0],
      1, len)

VendorFullLen == 1032

\* ------------------------------------------------------------------------
\* Bounds and inputs of the server model
\* ------------------------------------------------------------------------

\* datagrams the sender emits, clock advances
MaxPkts == 2
MaxTicks == 2

\* the consumers that may connect
Consumers == {1, 2}

\* the monotonic clock advances by one of these (milliseconds)
TickSteps == {2000}

\* --udp-format choices (argparse rejects any other name at startup)
FormatChoices ==
    {"auto", "unitree_l2_packet", "f32xyz", "f32xyzi", "i16xyz_mm", "i16xyzi_mm"}

\* calibration (a_axis, b_axis, theta_bias, alpha_bias, beta, xi,
\* range_bias, range_scale) and scan geometry (h_start, h_step, scan_period,
\* range_min, range_max, angle_min, angle_increment, time_increment)
CalUnit == <<0, 0, 0, 0, 0, 0, 0, F32BitsOfInt(1)>>
GeoGate(lo, hi) == <<0, 0, 0, F32BitsOfInt(lo), F32BitsOfInt(hi), 0, 0, 0>>

\* a vendor point packet with three samples, two of them inside the gate
VendorPkt3 ==
    VendorPacket(VendorPointType, VendorFullLen, CalUnit, GeoGate(2, 30), 3,
                 <<5, 0, 20>>, <<7, 8, 9>>, VendorFullLen)

\* 32 bytes, all zero but bytes 6 and 7: little-endian float 1 of row 1 is
\* +inf, the same bytes read big-endian are a denormal
BigEndianPkt == [i \in 1..32 |-> IF i = 7 THEN 128 ELSE IF i = 8 THEN 127 ELSE 0]

\* generic packets: one and two int16 points, one float32 point behind a
\* 4-byte header
I16One == SynthPacket(candidates[5], 0, 0, <<<<1, 0 - 2, 3>>>>)
I16Two == SynthPacket(candidates[5], 0, 0, <<<<10, 20, 30>>, <<40, 50, 60>>>>)
F32One == SynthPacket(candidates[1], 4, 0, <<<<F32BitsOfInt(600), 0, 0>>>>)

\* one float32 point below the unit threshold, behind a 4-byte header
F32Small == SynthPacket(candidates[1], 4, 0, <<<<F32BitsOfInt(2), 0, 0>>>>)

\* The runs of the model: a command line (format, header bytes, frame
\* interval, point cap) and the datagrams the sender may emit in that run.
\* 80000 and 50 are the defaults of --max-points and --frame-ms.
Scenarios ==
    << [mode |-> "udp", fmt |-> "auto", header_bytes |-> 0, frame_ms |-> 50, max_points |-> 2,
        traffic |-> {<<>>, I16One, I16Two, BigEndianPkt}],
       [mode |-> "udp", fmt |-> "auto", header_bytes |-> 0, frame_ms |-> 3000, max_points |-> 80000,
        traffic |-> {<<1, 2, 3>>, I16One, VendorPkt3}],
       [mode |-> "udp", fmt |-> "i16xyz_mm", header_bytes |-> 0, frame_ms |-> 50, max_points |-> 2,
        traffic |-> {<<>>, I16One, I16Two}],
       [mode |-> "udp", fmt |-> "unitree_l2_packet", header_bytes |-> 0, frame_ms |-> 50, max_points |-> 2,
        traffic |-> {I16One, VendorPkt3}],
       [mode |-> "udp", fmt |-> "f32xyz", header_bytes |-> 4, frame_ms |-> 50, max_points |-> 80000,
        traffic |-> {<<>>, I16One, F32One, F32Small}],
       [mode |-> "demo", fmt |-> "auto", header_bytes |-> 0, frame_ms |-> 50,
        max_points |-> 80000, traffic |-> {I16One}] >>

\* every datagram of some run
Datagrams == UNION {Scenarios[i].traffic : i \in 1..Len(Scenarios)}

\* ------------------------------------------------------------------------
\* State
\* ------------------------------------------------------------------------
VARIABLES
    scenario,            \* the run: an index of Scenarios
    mode,                \* --mode: "demo" or "udp"
    udp_format,          \* --udp-format as given on the command line
    fmt, header_bytes, frame_ms, max_points,  \* UdpPointSource configuration
    sock,                \* "none" before start(), then "bound"
    buf,                 \* _buf: the decoded batches, in arrival order
    last_frame_t,        \* _last_frame_t (ms)
    last_scale,          \* _last_scale
    pkts, decoded_pkts, points, last_stat_t,  \* stats
    now,                 \* time.monotonic() (ms)
    ticks,               \* clock advances so far
    sockq,               \* datagrams pending on the socket
    sent,                \* datagrams the sender has emitted
    pc,                  \* per consumer: where its lidar_stream is
    frame,               \* per consumer: the Frame read_frame returned
    err,                 \* per consumer: the exception that ended its loop
    emitted,             \* history: every Frame read_frame returned
    via,                 \* history: what decoded the last datagram received
    recvd,               \* history: datagrams recvfrom has returned so far
    arrived,             \* history: per batch of buf, its arrival number,
                         \*   the array decoded and the scale inferred for it
    owed,                \* history: datagrams that were pending when the
                         \*   current read_frame began and are not received yet
    payload, origin, det, dpc,  \* the detector run on its own
    vpayload, vout, vpc         \* the vendor decoder run on its own

srcvars == <<fmt, header_bytes, sock, buf, last_frame_t, last_scale,
             pkts, decoded_pkts, points, last_stat_t>>
cfgvars == <<scenario, mode, udp_format, frame_ms, max_points>>
envvars == <<now, ticks, sockq, sent>>
convars == <<pc, frame, err>>
histvars == <<recvd, arrived, owed>>
detvars == <<payload, origin, det, dpc>>
vendvars == <<vpayload, vout, vpc>>
vars == <<srcvars, cfgvars, envvars, convars, emitted, via, histvars, detvars, vendvars>>

NoFrame == [points |-> <<>>, scale |-> 0]
NoOrigin == [name |-> "", hb |-> 0]

\* UdpPointSource.__init__ and main(): the state after construction
Init ==
    /\ scenario \in {i \in 1..Len(Scenarios) : Scenarios[i].fmt \in FormatChoices}
    /\ mode = Scenarios[scenario].mode
    /\ udp_format = Scenarios[scenario].fmt
    /\ fmt = Scenarios[scenario].fmt
    /\ header_bytes = Scenarios[scenario].header_bytes
    /\ frame_ms = Scenarios[scenario].frame_ms
    /\ max_points = Scenarios[scenario].max_points
    /\ sock = "none"
    /\ buf = <<>>
    /\ last_frame_t = 0
    /\ last_scale = ScaleM
    /\ pkts = 0 /\ decoded_pkts = 0 /\ points = 0
    /\ last_stat_t = 0
    /\ now = 0 /\ ticks = 0
    /\ sockq = <<>> /\ sent = 0
    /\ pc = [c \in Consumers |-> "off"]
    /\ frame = [c \in Consumers |-> NoFrame]
    /\ err = [c \in Consumers |-> ""]
    /\ emitted = <<>>
    /\ via = ""
    /\ recvd = 0 /\ arrived = <<>> /\ owed = 0
    /\ payload = <<>> /\ origin = NoOrigin /\ det = AutoNone /\ dpc = "idle"
    /\ vpayload = <<>> /\ vout = NoneRes /\ vpc = "idle"

\* ------------------------------------------------------------------------
\* UdpPointSource.read_frame: the drain loop
\* ------------------------------------------------------------------------

\* the fields of the source the drain loop reads and writes
Src ==
    [fmt |-> fmt, header_bytes |-> header_bytes, last_scale |-> last_scale,
     pkts |-> pkts, decoded_pkts |-> decoded_pkts, points |-> points, buf |-> buf]

\* self._pkts += 1
Counted(s) == [s EXCEPT !.pkts = @ + 1]

\* a faulty variant: a datagram without a candidate counts as decoded
OnAutoMissCounted(s) == [s EXCEPT !.decoded_pkts = @ + 1]

\* "if auto is None: continue"
OnAutoMiss(s) == s

\* "if decoded is None: continue"
OnDecodeMiss(s) == s

\* lock onto the detected format
LockFormat(s, auto) == [s EXCEPT !.fmt = auto.name, !.header_bytes = auto.hb]

\* a faulty variant: the batch goes to the front of the buffer
AcceptFront(s, arr, scale) ==
    [s EXCEPT !.last_scale = scale,
              !.decoded_pkts = @ + 1,
              !.points = @ + Len(arr),
              !.buf = <<arr>> \o @]

\* self._last_scale = scale; the counters; self._buf.append(arr)
Accept(s, arr, scale) ==
    [s EXCEPT !.last_scale = scale,
              !.decoded_pkts = @ + 1,
              !.points = @ + Len(arr),
              !.buf = Append(@, arr)]

\* a faulty variant: the detector runs on every datagram
UsesDetectorAlways(s) == TRUE

\* whether a datagram goes to the detector
UsesDetector(s) == s.fmt = "auto"

\* The loop body after the detector returned auto; s has the datagram
\* counted.  The result is the outcome ("append", "discard", or "raise" when
\* the decoder raises), the source fields after it, and what decoded.
IngestAuto(s, auto) ==
    IF auto.kind = "none"
    THEN [out |-> "discard", src |-> OnAutoMiss(s), err |-> "", detector |-> TRUE,
          arr |-> <<>>, scale |-> 0]
    ELSE [out |-> "append", src |-> Accept(LockFormat(s, auto), auto.arr, auto.scale),
          err |-> "", detector |-> TRUE, arr |-> auto.arr, scale |-> auto.scale]

\* the loop body after _decode_points returned (or raised)
IngestDirect(s, decoded) ==
    IF decoded.kind = "raise"
    THEN [out |-> "raise", src |-> s, err |-> decoded.err, detector |-> FALSE,
          arr |-> <<>>, scale |-> 0]
    ELSE IF decoded.kind = "none"
    THEN [out |-> "discard", src |-> OnDecodeMiss(s), err |-> "", detector |-> FALSE,
          arr |-> <<>>, scale |-> 0]
    ELSE [out |-> "append", src |-> Accept(s, decoded.arr, decoded.scale),
          err |-> "", detector |-> FALSE, arr |-> decoded.arr, scale |-> decoded.scale]

\* one pass of the loop body on a received datagram
Ingest(s, data) ==
    IF UsesDetector(s)
    THEN IngestAuto(Counted(s), _decode_points_auto(data))
    ELSE IngestDirect(Counted(s), _decode_points(data, s.fmt, s.header_bytes))

\* ------------------------------------------------------------------------
\* UdpPointSource.read_frame: stats, gate and flush
\* ------------------------------------------------------------------------

\* (now - self._last_stat_t) >= 2.0
StatsDue(t, stat_t) == t - stat_t >= StatPeriodMs

\* a faulty variant: no gate
GatedNever(t, frame_t, interval) == FALSE

\* a faulty variant: the gate never opens
GatedAlways(t, frame_t, interval) == TRUE

\* (now - self._last_frame_t) * 1000.0 < self.frame_ms
Gated(t, frame_t, interval) == t - frame_t < interval

\* a faulty variant: an empty buffer is flushed like any other
NothingBufferedNever(b) == FALSE

\* "if not self._buf"
NothingBuffered(b) == b = <<>>

\* np.concatenate(list(self._buf), axis=0)
Merged(b) == Flatten(b)

\* np.random.choice(n, k, replace=False): every sequence of k distinct
\* indices
Choices(n, k) ==
    {idx \in [1..k -> 1..n] : \A i, j \in 1..k : i # j => idx[i] # idx[j]}

\* a faulty variant: no cap
CappedNever(merged, cap) == {merged}

\* a faulty variant: the flush leaves the batches in the buffer
ClearedKept(b) == b

\* self._buf.clear()
Cleared(b) == <<>>

\* the points of the Frame: merged, or merged[idx] when over the cap
Capped(merged, cap) ==
    IF Len(merged) > cap
    THEN {[i \in 1..cap |-> merged[idx[i]]] : idx \in Choices(Len(merged), cap)}
    ELSE {merged}

\* ------------------------------------------------------------------------
\* Actions
\* ------------------------------------------------------------------------

\* read_frame has no await: while one consumer is inside it, no other
\* coroutine of the event loop runs
Busy == \E c \in Consumers : pc[c] = "drain"

\* the sender emits a datagram; the kernel queues it if the socket is bound
Arrive(d) ==
    /\ sent < MaxPkts
    /\ sent' = sent + 1
    /\ sockq' = IF sock = "bound" THEN Append(sockq, d) ELSE sockq
    /\ UNCHANGED <<srcvars, cfgvars, now, ticks, convars, emitted, via, histvars, detvars, vendvars>>

\* the monotonic clock advances
Tick(d) ==
    /\ ticks < MaxTicks
    /\ ticks' = ticks + 1
    /\ now' = now + d
    /\ UNCHANGED <<srcvars, cfgvars, sockq, sent, convars, emitted, via, histvars, detvars, vendvars>>

\* a client connects: websockets starts handler -> lidar_stream
Connect(c) ==
    /\ pc[c] = "off"
    /\ ~Busy
    /\ pc' = [pc EXCEPT ![c] = "ready"]
    /\ UNCHANGED <<srcvars, cfgvars, envvars, frame, err, emitted, via, histvars, detvars, vendvars>>

\* a faulty variant: the loop calls read_frame in demo mode too
ReadFrameStartAnyMode(c) ==
    /\ pc[c] = "ready"
    /\ ~Busy
    /\ pc' = [pc EXCEPT ![c] = "drain"]
    /\ sock' = "bound"
    /\ owed' = Len(sockq)
    /\ UNCHANGED <<fmt, header_bytes, buf, last_frame_t, last_scale, pkts, decoded_pkts,
                   points, last_stat_t, cfgvars, envvars, frame, err, emitted, via,
                   recvd, arrived, detvars, vendvars>>

\* the loop calls read_frame; the first call binds the socket (start())
ReadFrameStart(c) ==
    /\ mode = "udp"
    /\ pc[c] = "ready"
    /\ ~Busy
    /\ pc' = [pc EXCEPT ![c] = "drain"]
    /\ sock' = "bound"
    /\ owed' = Len(sockq)
    /\ UNCHANGED <<fmt, header_bytes, buf, last_frame_t, last_scale, pkts, decoded_pkts,
                   points, last_stat_t, cfgvars, envvars, frame, err, emitted, via,
                   recvd, arrived, detvars, vendvars>>

\* points per demo frame in the model (the source draws 6000)
DemoRows == 2

\* np.random.uniform(-12000, 12000, size=(num_points, 3)): some of the
\* rows it can draw
DemoPoints == {<<0 - 12000, 0, 11999>>, <<1, 2, 3>>}

\* _demo_frame(): random points in millimetres
_demo_frame == {[points |-> pts, scale |-> ScaleMM] : pts \in [1..DemoRows -> DemoPoints]}

\* demo mode: the loop builds a demo frame; no UdpPointSource exists
DemoFrame(c) ==
    /\ mode = "demo"
    /\ pc[c] = "ready"
    /\ ~Busy
    /\ \E f \in _demo_frame : frame' = [frame EXCEPT ![c] = f]
    /\ pc' = [pc EXCEPT ![c] = "send"]
    /\ UNCHANGED <<srcvars, cfgvars, envvars, err, emitted, via, histvars, detvars, vendvars>>

\* recvfrom returns a datagram: one pass of the loop body.  A decoder
\* exception leaves read_frame and lidar_stream (which catches only
\* ConnectionClosed).
Recv(c) ==
    /\ pc[c] = "drain"
    /\ sockq # <<>>
    /\ sockq' = Tail(sockq)
    /\ \E r \in {Ingest(Src, Head(sockq))} :
           /\ fmt' = r.src.fmt
           /\ header_bytes' = r.src.header_bytes
           /\ last_scale' = r.src.last_scale
           /\ pkts' = r.src.pkts
           /\ decoded_pkts' = r.src.decoded_pkts
           /\ points' = r.src.points
           /\ buf' = r.src.buf
           /\ pc' = IF r.out = "raise" THEN [pc EXCEPT ![c] = "crashed"] ELSE pc
           /\ err' = IF r.out = "raise" THEN [err EXCEPT ![c] = r.err] ELSE err
           /\ via' = IF r.detector THEN "detector" ELSE "decoder"
           /\ arrived' = IF r.out = "append"
                          THEN Append(arrived, [n |-> recvd + 1, arr |-> r.arr,
                                                scale |-> r.scale, t |-> now])
                          ELSE arrived
    /\ recvd' = recvd + 1
    /\ owed' = IF owed > 0 THEN owed - 1 ELSE 0
    /\ UNCHANGED <<sock, last_frame_t, last_stat_t, cfgvars, now, ticks, sent, frame,
                   emitted, detvars, vendvars>>

\* recvfrom would block: the loop breaks; stats, gate, flush, return
Flush(c) ==
    /\ pc[c] = "drain"
    /\ sockq = <<>>
    /\ IF StatsDue(now, last_stat_t)
       THEN pkts' = 0 /\ decoded_pkts' = 0 /\ points' = 0 /\ last_stat_t' = now
       ELSE UNCHANGED <<pkts, decoded_pkts, points, last_stat_t>>
    /\ IF Gated(now, last_frame_t, frame_ms)
       THEN /\ pc' = [pc EXCEPT ![c] = "ready"]
            /\ UNCHANGED <<last_frame_t, buf, frame, emitted, arrived>>
       ELSE /\ last_frame_t' = now
            /\ IF NothingBuffered(buf)
               THEN /\ pc' = [pc EXCEPT ![c] = "ready"]
                    /\ UNCHANGED <<buf, frame, emitted, arrived>>
               ELSE /\ buf' = Cleared(buf)
                    /\ arrived' = IF buf' = <<>> THEN <<>> ELSE arrived
                    /\ \E pts \in Capped(Merged(buf), max_points) :
                          /\ frame' = [frame EXCEPT ![c] = [points |-> pts, scale |-> last_scale]]
                          /\ emitted' = Append(emitted,
                                 [t |-> now, elapsed |-> now - last_frame_t, to |-> c,
                                  nb |-> Len(buf), pre |-> Merged(buf),
                                  points |-> pts, scale |-> last_scale,
                                  batches |-> arrived])
                    /\ pc' = [pc EXCEPT ![c] = "send"]
    /\ UNCHANGED <<fmt, header_bytes, sock, last_scale, cfgvars, envvars, err, via,
                   recvd, owed, detvars, vendvars>>

\* websocket.send succeeds; the loop sleeps and goes round
SendOk(c) ==
    /\ pc[c] = "send"
    /\ ~Busy
    /\ pc' = [pc EXCEPT ![c] = "ready"]
    /\ frame' = [frame EXCEPT ![c] = NoFrame]
    /\ UNCHANGED <<srcvars, cfgvars, envvars, err, emitted, via, histvars, detvars, vendvars>>

\* a faulty variant: one consumer's disconnect ends every loop
OnConnectionClosedAll(p, c) == [o \in DOMAIN p |-> "closed"]

\* what a ConnectionClosed from websocket.send does to the loops: the
\* except clause ends this consumer's loop
OnConnectionClosed(p, c) == [p EXCEPT ![c] = "closed"]

\* websocket.send raises ConnectionClosed: the consumer has gone
SendFail(c) ==
    /\ pc[c] = "send"
    /\ ~Busy
    /\ pc' = OnConnectionClosed(pc, c)
    /\ frame' = [frame EXCEPT ![c] = NoFrame]
    /\ UNCHANGED <<srcvars, cfgvars, envvars, err, emitted, via, histvars, detvars, vendvars>>

Next ==
    \/ \E d \in Scenarios[scenario].traffic : Arrive(d)
    \/ \E d \in TickSteps : Tick(d)
    \/ \E c \in Consumers : Connect(c)
    \/ \E c \in Consumers : DemoFrame(c)
    \/ \E c \in Consumers : ReadFrameStart(c)
    \/ \E c \in Consumers : Recv(c)
    \/ \E c \in Consumers : Flush(c)
    \/ \E c \in Consumers : SendOk(c)
    \/ \E c \in Consumers : SendFail(c)

Spec == Init /\ [][Next]_vars

\* Scheduling: time.monotonic() keeps advancing, and the event loop runs
\* every loop that is ready (read_frame runs to its return without an
\* await; asyncio.sleep and a send that succeeds return).  Clients connect
\* and disconnect, and the sender sends, as they please.
\* The drain loop of read_frame has no await: while a datagram is pending it
\* keeps calling recvfrom.  Recv(c) is enabled exactly when DrainPending(c)
\* holds and every Recv(c) step takes the head of the socket queue, so this is
\* weak fairness of Recv(c) written without ENABLED.
DrainPending(c) == pc[c] = "drain" /\ sockq # <<>>

RecvFair(c) ==
    \/ []<>(~DrainPending(c))
    \/ []<><<DrainPending(c) /\ sockq' = Tail(sockq)>>_vars

Fairness ==
    /\ WF_vars(\E d \in TickSteps : Tick(d))
    /\ \A c \in Consumers :
          /\ WF_vars(DemoFrame(c))
          /\ WF_vars(ReadFrameStart(c))
          /\ RecvFair(c)
          /\ WF_vars(Flush(c))
          /\ WF_vars(SendOk(c))

SpecLive == Init /\ [][Next]_vars /\ Fairness

\* ------------------------------------------------------------------------
\* The detector on its own: _decode_points_auto applied to one payload
\* ------------------------------------------------------------------------

\* rows per synthetic packet
MaxSynthRows == 3

\* the header offsets the detector scans: 0, 4, ..., 64
HeaderOffsets == {HeaderStep * k : k \in 0..(MaxHeaderScan \div HeaderStep)}

\* row r of a synthetic packet of layout cand: values the layout can carry
\* (floats 1.0 .. 12.0, non-zero integers), the fourth column an intensity
SynthRow(cand, r) ==
    [c \in 1..cand.cols |->
        IF cand.width = 4 THEN F32BitsOfInt(3 * (r - 1) + c)
        ELSE IF cand.dtype = "<i2" THEN (IF c = 2 THEN 0 - (100 * r + c) ELSE 100 * r + c)
        ELSE 40000 + 100 * r + c]

SynthRowsOf(cand, n) == [r \in 1..n |-> SynthRow(cand, r)]

\* synthetic packets of the eight generic layouts, each with the (layout,
\* header offset) pair it was built from
SynthInputs ==
    {[payload |-> SynthPacket(candidates[k], hb, 0, SynthRowsOf(candidates[k], n)),
      origin |-> [name |-> candidates[k].name, hb |-> hb]] :
        k \in 1..Len(candidates), hb \in HeaderOffsets, n \in 1..MaxSynthRows}

\* calibration with a non-finite axis distance
CalNaN == <<F32InfBits + 1, 0, 0, 0, 0, 0, 0, F32BitsOfInt(1)>>

\* buffers that start with the vendor magic
MagicPayloads ==
    { VendorPkt3,
      \* 301 declared points, one inside the gate
      VendorPacket(VendorPointType, VendorFullLen, CalUnit, GeoGate(2, 30), 301,
                   <<1, 2>>, <<7, 8>>, VendorFullLen),
      \* not a point packet
      VendorPacket(101, VendorFullLen, CalUnit, GeoGate(2, 30), 3,
                   <<5, 0, 20>>, <<7, 8, 9>>, VendorFullLen),
      \* declared size beyond the buffer
      VendorPacket(VendorPointType, VendorFullLen + 1, CalUnit, GeoGate(2, 30), 3,
                   <<5, 0, 20>>, <<7, 8, 9>>, VendorFullLen),
      \* point_count = 0
      VendorPacket(VendorPointType, VendorFullLen, CalUnit, GeoGate(2, 30), 0,
                   <<5, 0, 20>>, <<7, 8, 9>>, VendorFullLen),
      \* every sample outside the gate
      VendorPacket(VendorPointType, VendorFullLen, CalUnit, GeoGate(2, 30), 3,
                   <<1, 0, 40>>, <<7, 8, 9>>, VendorFullLen),
      \* every sample non-finite
      VendorPacket(VendorPointType, VendorFullLen, CalNaN, GeoGate(2, 30), 3,
                   <<5, 0, 20>>, <<7, 8, 9>>, VendorFullLen),
      \* cut inside the sample arrays, and right after the frame header
      VendorPacket(VendorPointType, 0, CalUnit, GeoGate(2, 30), 3,
                   <<5, 0, 20>>, <<7, 8, 9>>, 1000),
      VendorPacket(VendorPointType, 0, CalUnit, GeoGate(2, 30), 3, <<>>, <<>>, 12),
      \* the magic and nothing else that is non-zero
      Magic \o Zeros(8) }

\* 16 bytes, all zero but bytes 6 and 7: as f32xyzi at header offset 0 the y
\* of the one row is 2^24 (0x4B800000), above 1e7
LargeFloatPkt == [i \in 1..16 |-> IF i = 7 THEN 128 ELSE IF i = 8 THEN 75 ELSE 0]

DetectInputs ==
    SynthInputs
    \cup {[payload |-> p, origin |-> NoOrigin] :
             p \in MagicPayloads \cup Datagrams \cup {LargeFloatPkt}}

InitDetect ==
    /\ scenario = 1
    /\ mode = "udp"
    /\ udp_format = "auto"
    /\ fmt = "auto" /\ header_bytes = 0 /\ frame_ms = 50 /\ max_points = 2
    /\ sock = "none"
    /\ buf = <<>>
    /\ last_frame_t = 0
    /\ last_scale = ScaleM
    /\ pkts = 0 /\ decoded_pkts = 0 /\ points = 0
    /\ last_stat_t = 0
    /\ now = 0 /\ ticks = 0
    /\ sockq = <<>> /\ sent = 0
    /\ pc = [c \in Consumers |-> "off"]
    /\ frame = [c \in Consumers |-> NoFrame]
    /\ err = [c \in Consumers |-> ""]
    /\ emitted = <<>>
    /\ via = ""
    /\ recvd = 0 /\ arrived = <<>> /\ owed = 0
    /\ vpayload = <<>> /\ vout = NoneRes /\ vpc = "idle"
    /\ \E inp \in DetectInputs : payload = inp.payload /\ origin = inp.origin
    /\ det = AutoNone
    /\ dpc = "start"

\* the call auto = _decode_points_auto(data)
Detect ==
    /\ dpc = "start"
    /\ det' = _decode_points_auto(payload)
    /\ dpc' = "done"
    /\ UNCHANGED <<srcvars, cfgvars, envvars, convars, emitted, via, histvars,
                   payload, origin, vendvars>>

NextDetect == Detect

SpecDetect == InitDetect /\ [][NextDetect]_vars

\* ------------------------------------------------------------------------
\* The vendor decoder on its own: _decode_points(data, "unitree_l2_packet")
\* applied to one payload
\* ------------------------------------------------------------------------

\* leading samples that vary per packet
MaxVendorSamples == 3

\* raw ranges: below 1, inside the gate [2 m, 30 m] at range_scale 1 and
\* range_bias 0, beyond the gate
RawChoices == {0, 5, 40}

\* intensity bytes, one value per sample index
IntensOf(n) == [i \in 1..n |-> 6 + (i % 200)]

\* well-formed point packets: every choice of leading samples, declared
\* point counts from 0 to past the protocol maximum
SamplePackets ==
    {VendorPacket(VendorPointType, VendorFullLen, cal, GeoGate(2, 30), pn, rs,
                  IntensOf(MaxVendorSamples), VendorFullLen) :
        cal \in {CalUnit, CalNaN},
        pn \in (0..MaxVendorSamples) \cup {VendorMaxPoints + 1},
        rs \in [1..MaxVendorSamples -> RawChoices]}

\* packets with 300 samples inside the gate
FullPackets ==
    {VendorPacket(VendorPointType, VendorFullLen, CalUnit, GeoGate(2, 30), pn,
                  [i \in 1..VendorMaxPoints |-> 5], IntensOf(VendorMaxPoints),
                  VendorFullLen) :
        pn \in {VendorMaxPoints, VendorMaxPoints + 1}}

\* packets of either type, declared size within or beyond the buffer, cut
\* at the end of each region of the layout or one byte before it
HeaderPackets ==
    {VendorPacket(pt, len + over, CalUnit, GeoGate(2, 30), pn, <<5, 0, 20>>,
                  IntensOf(3), len) :
        pt \in {VendorPointType, 101}, over \in {0, 1}, pn \in {0, 3},
        len \in {VendorFullLen, VendorFullLen - 1, 132, 131, 12}}

VendorInputs ==
    SamplePackets \cup FullPackets \cup HeaderPackets
    \cup {<<>>, I16One, Magic, Zeros(VendorFullLen)}

InitVendor ==
    /\ scenario = 4
    /\ mode = "udp"
    /\ udp_format = "unitree_l2_packet"
    /\ fmt = "unitree_l2_packet" /\ header_bytes = 0 /\ frame_ms = 50 /\ max_points = 2
    /\ sock = "none"
    /\ buf = <<>>
    /\ last_frame_t = 0
    /\ last_scale = ScaleM
    /\ pkts = 0 /\ decoded_pkts = 0 /\ points = 0
    /\ last_stat_t = 0
    /\ now = 0 /\ ticks = 0
    /\ sockq = <<>> /\ sent = 0
    /\ pc = [c \in Consumers |-> "off"]
    /\ frame = [c \in Consumers |-> NoFrame]
    /\ err = [c \in Consumers |-> ""]
    /\ emitted = <<>>
    /\ via = ""
    /\ recvd = 0 /\ arrived = <<>> /\ owed = 0
    /\ payload = <<>> /\ origin = NoOrigin /\ det = AutoNone /\ dpc = "idle"
    /\ vpayload \in VendorInputs
    /\ vout = NoneRes
    /\ vpc = "start"

\* the call decoded = _decode_points(data, fmt=self.fmt, header_bytes=...)
VendorDecode ==
    /\ vpc = "start"
    /\ vout' = _decode_points(vpayload, fmt, header_bytes)
    /\ vpc' = "done"
    /\ UNCHANGED <<srcvars, cfgvars, envvars, convars, emitted, via, histvars, detvars,
                   vpayload>>

NextVendor == VendorDecode

SpecVendor == InitVendor /\ [][NextVendor]_vars

\* ------------------------------------------------------------------------
\* Claims
\* ------------------------------------------------------------------------

Frames == {emitted[i] : i \in 1..Len(emitted)}

\* pts is pre[idx] for some sequence idx of distinct indices
DrawnWithoutReplacement(pts, pre) ==
    \E idx \in Choices(Len(pre), Len(pts)) : pts = [i \in 1..Len(pts) |-> pre[idx[i]]]

\* C1: every Frame read_frame returns has at most max_points points; it has
\* all the buffered points when they are at most max_points, and otherwise
\* exactly max_points of them, drawn without replacement.
C1_FrameSize ==
    \A e \in Frames :
        /\ Len(e.points) <= max_points
        /\ Len(e.pre) <= max_points => e.points = e.pre
        /\ Len(e.pre) > max_points =>
              Len(e.points) = max_points /\ DrawnWithoutReplacement(e.points, e.pre)

\* a Frame merged from two batches that hold more than max_points points
C1_Witness ==
    \E e \in Frames :
        /\ e.nb >= 2
        /\ Len(e.pre) > max_points
        /\ Len(e.points) = max_points

\* C2: no Frame is returned less than frame_ms after the last flush
\* timestamp, and any two Frames (to whichever consumers) are at least
\* frame_ms apart.
C2_TemporalGating ==
    /\ \A e \in Frames : e.elapsed >= frame_ms
    /\ \A i, j \in 1..Len(emitted) : i < j => emitted[j].t - emitted[i].t >= frame_ms

\* two Frames, returned to two consumers, with a positive frame interval
C2_Witness ==
    /\ frame_ms > 0
    /\ Len(emitted) = 2
    /\ emitted[1].to # emitted[2].to

\* C3: a Frame is the merge of at least one buffered batch; a flush that
\* finds the buffer empty returns nothing, so what a udp-mode loop sends is a
\* Frame read_frame returned.
C3_FrameNeedsBatch ==
    /\ \A e \in Frames : e.nb >= 1
    /\ \A c \in Consumers : (mode = "udp" /\ pc[c] = "send") =>
          \E e \in Frames : e.to = c /\ frame[c] = [points |-> e.points, scale |-> e.scale]

\* a flush past the gate found the buffer empty (the flush timestamp moved,
\* no Frame), then a later one returned a Frame
C3_Witness ==
    /\ Len(emitted) = 1
    /\ emitted[1].elapsed < emitted[1].t

\* a received datagram is taken off the socket
Received == sockq # <<>> /\ sockq' = Tail(sockq)

\* C4: a datagram the detector succeeds on moves the format from "auto" to
\* the detected layout; once the format is not "auto" it never changes, nor
\* does the header offset, and no later datagram goes to the detector: the
\* detector runs only while the format is "auto".
C4_LockPermanent ==
    [][/\ fmt # "auto" => fmt' = fmt /\ header_bytes' = header_bytes
       /\ Received /\ fmt # "auto" => via' = "decoder"
       /\ Received /\ via' = "detector" => fmt = "auto"
       /\ Received /\ fmt = "auto" /\ _decode_points_auto(Head(sockq)).kind = "ok" =>
             /\ fmt' = _decode_points_auto(Head(sockq)).name
             /\ fmt' # "auto"]_vars

\* a session that started in "auto", locked, and decoded a later datagram
\* with the per-packet decoder
C4_Witness ==
    /\ udp_format = "auto"
    /\ fmt # "auto"
    /\ via = "decoder"
    /\ pkts >= 2

\* C5: a datagram the detector finds no candidate for changes nothing but
\* the packets-received counter.
C5_AutoMissNoEffect ==
    [][Received /\ fmt = "auto" /\ _decode_points_auto(Head(sockq)).kind = "none" =>
          /\ fmt' = "auto"
          /\ header_bytes' = header_bytes
          /\ last_scale' = last_scale
          /\ buf' = buf
          /\ decoded_pkts' = decoded_pkts
          /\ points' = points
          /\ pkts' = pkts + 1]_vars

\* the detector ran on a datagram and found nothing
C5_Witness ==
    /\ via = "detector"
    /\ fmt = "auto"
    /\ pkts = 1
    /\ decoded_pkts = 0
    /\ buf = <<>>

\* C6: processing a datagram never raises out of read_frame and the
\* publish loop.
C6_NoErrorSurfaced == \A c \in Consumers : pc[c] # "crashed"

\* C7: the unknown-format error is never raised while a datagram is
\* processed.
C7_UnknownFormatOnlyAtStartup ==
    \A c \in Consumers : err[c] # "ValueError: Unknown format"

\* the buffer fits a generic layout: the generic heuristics find a valid
\* candidate
FitsGeneric(p) == GenericDetect(p).kind = "ok"

\* C8 as stated: every buffer that starts with the magic and fits a generic
\* layout is decoded by the vendor path.
C8_MagicAlwaysVendor ==
    dpc = "done" /\ HasMagic(payload) /\ FitsGeneric(payload) =>
        det.kind = "ok" /\ det.name = "unitree_l2_packet"

\* C8 amended: a buffer that starts with the magic and whose vendor
\* decoding yields at least one point is decoded by the vendor path and
\* locks the vendor protocol at header offset 0, whatever generic layout it
\* fits; a buffer with the magic whose vendor decoding fails or yields no
\* point gets what the generic heuristics give.
C8_VendorPriority ==
    dpc = "done" /\ HasMagic(payload) =>
        IF /\ _decode_unitree_l2_point_packet(payload).kind = "ok"
           /\ _decode_unitree_l2_point_packet(payload).arr # <<>>
        THEN det = AutoOk(_decode_unitree_l2_point_packet(payload).arr, ScaleM, 0,
                          "unitree_l2_packet")
        ELSE det = GenericDetect(payload)

\* a vendor packet with points that also fits a generic layout
C8_Witness ==
    /\ dpc = "done"
    /\ HasMagic(payload)
    /\ FitsGeneric(payload)
    /\ det.name = "unitree_l2_packet"
    /\ Len(det.arr) >= 1

\* C9: a synthetic packet of a generic layout locks the (header offset,
\* layout) it was built from.
C9_LocksOrigin ==
    dpc = "done" /\ origin.name # "" =>
        det.kind = "ok" /\ det.name = origin.name /\ det.hb = origin.hb

\* C10: a send that fails because the consumer has gone ends that
\* consumer's loop and nothing else: no other loop moves, and the source
\* and the socket are as they were.
C10_DisconnectIsolated ==
    [][\A c \in Consumers : pc[c] = "send" /\ pc'[c] = "closed" =>
          /\ \A o \in Consumers \ {c} : pc'[o] = pc[o] /\ frame'[o] = frame[o] /\ err'[o] = err[o]
          /\ err'[c] = ""
          /\ UNCHANGED <<srcvars, sockq>>]_vars

\* one consumer has gone, and the other was returned a Frame afterwards
C10_Witness ==
    /\ pc[1] = "closed"
    /\ pc[2] = "send"
    /\ Len(emitted) = 2
    /\ emitted[1].to = 1 /\ emitted[2].to = 2

\* the step is a pass of the drain loop of the consumer inside read_frame
DrainStep == (\E c \in Consumers : pc[c] = "drain") /\ Received

\* C11: while datagrams that were pending when a read_frame began are not
\* yet received, nothing runs but the drain loop of that read_frame: no
\* stats report or flush check, no step of another consumer's loop.  (The
\* kernel may queue more datagrams and the clock may advance meanwhile.)
C11_BurstAbsorbed ==
    [][owed > 0 => \/ DrainStep
                   \/ UNCHANGED <<srcvars, convars, emitted>>]_vars

\* C12: the scale of every Frame is the scale inferred for each batch
\* merged into it.
C12_FrameScaleValid ==
    \A e \in Frames : \A i \in 1..Len(e.batches) : e.batches[i].scale = e.scale

\* the arrays of a sequence of batch records, in its order
ArraysOf(batches) == [i \in 1..Len(batches) |-> batches[i].arr]

\* the arrival numbers of a sequence of batch records grow
InArrivalOrder(batches) ==
    \A i, j \in 1..Len(batches) : i < j => batches[i].n < batches[j].n

\* C13: the buffer holds the decoded batches in datagram arrival order; a
\* Frame that was not subsampled is the concatenation of the buffered
\* batches in that order; between flushes the buffer only grows at its end,
\* and a flush that returns a Frame empties it.
C13_ArrivalOrder ==
    /\ [](/\ buf = ArraysOf(arrived)
          /\ InArrivalOrder(arrived)
          /\ \A e \in Frames :
                /\ InArrivalOrder(e.batches)
                /\ e.pre = Flatten(ArraysOf(e.batches))
                /\ Len(e.pre) <= max_points => e.points = Flatten(ArraysOf(e.batches)))
    /\ [][\/ buf' = buf
          \/ /\ Len(buf') = Len(buf) + 1
             /\ SubSeq(buf', 1, Len(buf)) = buf
             /\ Received
          \/ /\ buf' = <<>>
             /\ Len(emitted') = Len(emitted) + 1
             /\ emitted'[Len(emitted')].nb = Len(buf)]_vars

\* a Frame, not subsampled, merged from two different non-empty batches
C13_Witness ==
    \E e \in Frames :
        /\ Len(e.batches) = 2
        /\ e.batches[1].arr # e.batches[2].arr
        /\ e.batches[1].arr # <<>> /\ e.batches[2].arr # <<>>
        /\ e.points = e.pre
        /\ e.elapsed > 0

\* the fields of a vendor packet the claims speak of
PacketType(p) == U32At(p, 4)
PacketSize(p) == U32At(p, 8)
PointCount(p) == U32At(p, 128)
WellFramed(p) ==
    /\ HasMagic(p)
    /\ PacketType(p) = VendorPointType
    /\ PacketSize(p) <= Len(p)

\* samples 0 .. min(point_count, 300) - 1
SampleIndices(p) == 0..(Min2(PointCount(p), VendorMaxPoints) - 1)

\* C14: a well-framed vendor packet with a complete header region and
\* point_count = 0 decodes to an empty batch with scale 1.0, not to a
\* failure; so does a complete packet whose samples are all masked out; and
\* the decoder fails only on a buffer shorter than a complete packet, a
\* wrong magic, a packet type other than 102 or a declared size beyond the
\* buffer (and never raises).
C14_EmptyVendorBatch ==
    vpc = "done" =>
        /\ vout.kind # "raise"
        /\ (WellFramed(vpayload) /\ Len(vpayload) >= 132 /\ PointCount(vpayload) = 0)
              => vout = OkRes(<<>>, ScaleM)
        /\ (/\ WellFramed(vpayload)
            /\ Len(vpayload) >= VendorFullLen
            /\ \A j \in SampleIndices(vpayload) : ~VendorMask(vpayload, j))
              => vout = OkRes(<<>>, ScaleM)
        /\ vout.kind = "none" =>
              (\/ Len(vpayload) < VendorFullLen
               \/ ~HasMagic(vpayload)
               \/ PacketType(vpayload) # VendorPointType
               \/ PacketSize(vpayload) > Len(vpayload))

\* a well-framed packet with point_count = 0, decoded to an empty batch
C14_Witness ==
    /\ vpc = "done"
    /\ WellFramed(vpayload)
    /\ Len(vpayload) >= 132
    /\ PointCount(vpayload) = 0
    /\ vout = OkRes(<<>>, ScaleM)

\* C15: a decoded vendor packet has at most min(point_count, 300) points;
\* its points are samples of distinct indices below that number, in
\* increasing order; none has a raw range below 1 or a range outside
\* [range_min_m, range_max_m]; each carries the intensity byte of its own
\* sample.
C15_VendorFiltering ==
    vpc = "done" /\ vout.kind = "ok" =>
        /\ Len(vout.arr) <= Min2(PointCount(vpayload), VendorMaxPoints)
        /\ \A k \in 1..Len(vout.arr) :
              /\ vout.arr[k][2] \in SampleIndices(vpayload)
              /\ k > 1 => vout.arr[k - 1][2] < vout.arr[k][2]
              /\ U16At(vpayload, 132 + 2 * vout.arr[k][2]) >= 1
              /\ FLe(F32Num(F32LEAt(vpayload, 108)), VendorRange(vpayload, vout.arr[k][2]))
              /\ FLe(VendorRange(vpayload, vout.arr[k][2]), F32Num(F32LEAt(vpayload, 112)))
              /\ vout.arr[k][4] = vpayload[132 + 2 * VendorMaxPoints + vout.arr[k][2] + 1]

\* samples 0 and 2 are kept, sample 1 between them is filtered out
C15_Witness ==
    /\ vpc = "done"
    /\ vout.kind = "ok"
    /\ Len(vout.arr) = 2
    /\ vout.arr[1][2] = 0
    /\ vout.arr[2][2] = 2

\* combination i of the scan: its header offset, its candidate, whether the
\* candidate divides the body, and the array it decodes
ComboHb(i) == HeaderStep * (i \div Len(candidates))
ComboCand(i) == candidates[(i % Len(candidates)) + 1]
ComboFits(p, i) ==
    /\ Len(p) > ComboHb(i)
    /\ (Len(p) - ComboHb(i)) % (ComboCand(i).width * ComboCand(i).cols) = 0
ComboArr(p, i) ==
    FromBuffer(Slice(p, ComboHb(i)), ComboCand(i).dtype, ComboCand(i).width,
               ComboCand(i).cols)
Combos(p) == {i \in 0..(NumCombos - 1) : ComboFits(p, i)}

\* a candidate that is not rejected: points, finite, not all zero
ValidCandidate(arr) == arr # <<>> /\ XYZFinite(arr) /\ MaxAbsXYZ(arr) # 0

\* C16: a rejected candidate scores -1, a valid one (penalized or not)
\* scores more; so when some combination is valid the generic heuristics
\* return a valid candidate, and the one returned has the highest score of
\* all combinations.
C16_DetectorScoring ==
    dpc = "done" /\ det.name # "unitree_l2_packet" =>
        /\ \A i \in Combos(payload) :
              IF ValidCandidate(ComboArr(payload, i))
              THEN score(ComboArr(payload, i)) > 0 - 1
              ELSE score(ComboArr(payload, i)) = 0 - 1
        /\ (\E i \in Combos(payload) : ValidCandidate(ComboArr(payload, i))) =>
              /\ det.kind = "ok"
              /\ ValidCandidate(det.arr)
              /\ \A i \in Combos(payload) : score(det.arr) >= score(ComboArr(payload, i))

\* the arrival numbers of the batches merged into a Frame
ArrivalsOf(e) == {e.batches[i].n : i \in 1..Len(e.batches)}

\* C17: no batch is merged into two Frames, and the flush that builds a
\* Frame hands it to one consumer only, the one whose read_frame flushed.
C17_FramesPartitioned ==
    /\ [](\A i, j \in 1..Len(emitted) :
              i # j => ArrivalsOf(emitted[i]) \cap ArrivalsOf(emitted[j]) = {})
    /\ [][Len(emitted') = Len(emitted) + 1 =>
             \E c \in Consumers :
                 /\ pc[c] = "drain"
                 /\ emitted'[Len(emitted')].to = c
                 /\ frame'[c].points = emitted'[Len(emitted')].points
                 /\ \A o \in Consumers \ {c} : frame'[o] = frame[o]]_vars

\* two consumers were each returned a Frame, of different batches
C17_Witness ==
    /\ Len(emitted) = 2
    /\ emitted[1].to # emitted[2].to
    /\ ArrivalsOf(emitted[1]) # {}
    /\ ArrivalsOf(emitted[2]) # {}
    /\ ArrivalsOf(emitted[1]) # ArrivalsOf(emitted[2])

\* consumer c is in a read_frame call of a udp-mode loop during the step
InReadFrame(c) ==
    /\ mode = "udp"
    /\ \/ pc[c] = "ready" /\ pc'[c] = "drain"
       \/ pc[c] = "drain"

\* C18: the socket is bound, datagrams are received, and the buffer, the
\* counters, the flush timestamp, the scale and the format change only in a
\* step of a read_frame call of some connected consumer's loop in udp mode;
\* with no such call (no consumer, or demo mode) arriving datagrams change
\* none of it.
C18_IngestionByConsumers ==
    [][(srcvars' # srcvars \/ Received \/ emitted' # emitted) =>
           \E c \in Consumers : InReadFrame(c)]_vars

\* demo mode: datagrams were sent, a consumer was given a demo frame, and
\* the source is as constructed
C18_Witness ==
    /\ mode = "demo"
    /\ sent >= 1
    /\ \E c \in Consumers : pc[c] = "send" /\ frame[c] \in _demo_frame
    /\ sock = "none"
    /\ sockq = <<>>
    /\ pkts = 0
    /\ buf = <<>>

\* no publish loop is running
NoLoopRunning == \A c \in Consumers : pc[c] \in {"off", "closed", "crashed"}

\* the clock of the model advances MaxTicks times: the advances that remain
\* take it past the gate
ClockWillPassGate ==
    \E d \in TickSteps : (now + (MaxTicks - ticks) * d) - last_frame_t >= frame_ms

\* C19: under fair scheduling and advancing time, a buffer that holds a
\* batch is eventually flushed (it becomes empty) unless every publish loop
\* has ended; and batches leave the buffer only all at once, in a flush that
\* returns a Frame merged from them.
C19_EventualFlush ==
    /\ (buf # <<>> /\ ClockWillPassGate) ~> (buf = <<>> \/ NoLoopRunning)
    /\ [][Len(buf') < Len(buf) =>
             /\ buf' = <<>>
             /\ Len(emitted') = Len(emitted) + 1
             /\ emitted'[Len(emitted')].pre = Merged(buf)
             /\ \E c \in Consumers : pc'[c] = "send" /\ emitted'[Len(emitted')].to = c]_vars

\* a batch that waited in the buffer while the clock advanced, and was then
\* flushed into a Frame
C19_Witness ==
    /\ buf = <<>>
    /\ \E e \in Frames : \E i \in 1..Len(e.batches) : e.batches[i].t < e.t

=============================================================================
